---------------------------- MODULE Spec2Model ----------------------------
(***************************************************************************)
(* Model of experiment.py: a manual tweet-labelling script.  It loads      *)
(* experiment.csv with pandas (every cell as text), creates a numpy buffer *)
(* of 1000 integers filled with -1, prompts the operator once per row and  *)
(* stores the typed value at the row's position, and in a finally block    *)
(* names a label column, attaches the buffer as that column and writes the *)
(* frame back to experiment.csv.                                           *)
(*                                                                         *)
(* A table (the file, or the DataFrame edf) is a record                    *)
(*     [cols |-> sequence of column names,                                 *)
(*      dtype |-> sequence of "object" / "int64", one per column,          *)
(*      data |-> sequence of columns, each a sequence of cells]            *)
(* kept column by column, as pandas keeps it.  The file's cells are the    *)
(* text tokens between the delimiters; its dtype is "object" throughout.   *)
(* A line typed at the prompt is a sequence of one-character strings.      *)
(***************************************************************************)
EXTENDS Integers, Sequences, FiniteSets, TLC

VARIABLES
    file,    \* content of experiment.csv on disk
    edf,     \* the DataFrame of line 5
    ans,     \* the numpy buffer of line 6, indexed from 0
    i,       \* the loop variable of line 9 (0 while it is not yet bound)
    col,     \* the label column's name of line 24 ("" while not computed)
    pc,      \* "start", "prompt" (blocked in input), "finally", "exit"
    err,     \* the exception in flight, "none" when there is none
    run,     \* number of the current run of the script
    shown,   \* the number printed after "TWEET #" by the last print(info)
    stored,  \* how many assignments ans[i] = val completed in this run
    entered, \* the integers those assignments stored, in the order stored
    loaded,  \* the column names read_csv returned in this run
    base,    \* the file's column names and row count before the first run
    finals,  \* how many times this run entered the finally block
    saves    \* how many times this run called to_csv

vars == <<pc, err, run, i, col, shown, stored, finals, saves, entered, loaded,
          base, ans, file, edf>>

-----------------------------------------------------------------------------
(* Program constants *)

\* np.full(1000, -1): the length of the answer buffer
BufLen == 1000

\* np.full(1000, -1): the fill value of the answer buffer
Sentinel == -1

\* len(edf.columns) - 2: the two leading columns are not label columns
MetaCols == 2

-----------------------------------------------------------------------------
(* Bounds of the model *)

\* short datasets have 0..MaxRows rows
MaxRows == 2

\* in a long session the operator types freely (and may interrupt) at the
\* first and at the last FreeRows prompts, and types DefaultEntry in between
FreeRows == 1

\* the script is run at most MaxRuns times in succession (SpecTwice)
MaxRuns == 2

-----------------------------------------------------------------------------
(* pandas: reading and writing the file *)

\* float nan, the missing-value marker of an object column.  No string cell
\* of a loaded frame equals it, since the token "nan" itself loads as nan.
NaN == "nan"

\* tokens read_csv loads as nan (its default na_values; not exhaustive)
NaTokens == {"", "NA", "N/A", "NaN", "nan", "null", "NULL", "None", "n/a", "<NA>"}

NCols(t) == Len(t.cols)

NRows(t) == IF t.data = <<>> THEN 0 ELSE Len(t.data[1])

\* one cell of read_csv(..., dtype=str)
ParseCell(tok) == IF tok \in NaTokens THEN NaN ELSE tok

\* pd.read_csv('experiment.csv', dtype=str) of a file with a header line
ReadCsv(f) ==
    [cols  |-> f.cols,
     dtype |-> [c \in 1..NCols(f) |-> "object"],
     data  |-> [c \in 1..NCols(f) |->
                  [r \in 1..NRows(f) |-> ParseCell(f.data[c][r])]]]

\* one cell as to_csv writes it: nan as the empty token, an integer in decimal
FormatCell(dt, v) ==
    IF dt = "int64" THEN ToString(v)
    ELSE IF v = NaN THEN "" ELSE v

\* edf.to_csv('experiment.csv', index=False): header and cells, no index column
ToCsv(df) ==
    [cols  |-> df.cols,
     dtype |-> [c \in 1..NCols(df) |-> "object"],
     data  |-> [c \in 1..NCols(df) |->
                  [r \in 1..NRows(df) |-> FormatCell(df.dtype[c], df.data[c][r])]]]

\* position of column name among the columns, 0 when absent
ColIndex(df, name) ==
    IF \E c \in 1..NCols(df) : df.cols[c] = name
    THEN CHOOSE c \in 1..NCols(df) : df.cols[c] = name
    ELSE 0

\* the frame reindexed to n rows of nan: what __setitem__ does to a frame
\* with no rows before it takes a non-empty column
Reindexed(df, n) ==
    [df EXCEPT !.data = [c \in 1..NCols(df) |-> [r \in 1..n |-> NaN]]]

\* the column named name set to the integer column vals, in place when the
\* name exists and appended otherwise
WithColumn(df, name, vals) ==
    LET c == ColIndex(df, name) IN
    IF c > 0
    THEN [cols  |-> df.cols,
          dtype |-> [k \in 1..NCols(df) |-> IF k = c THEN "int64" ELSE df.dtype[k]],
          data  |-> [k \in 1..NCols(df) |-> IF k = c THEN vals ELSE df.data[k]]]
    ELSE [cols  |-> Append(df.cols, name),
          dtype |-> Append(df.dtype, "int64"),
          data  |-> Append(df.data, vals)]

\* edf[col] = ans.  ok is FALSE when pandas raises ValueError (length of
\* values does not match length of index)
SetItem(df, name, vals) ==
    IF NRows(df) = 0 /\ Len(vals) > 0
    THEN [ok |-> TRUE, df |-> WithColumn(Reindexed(df, Len(vals)), name, vals)]
    ELSE IF Len(vals) # NRows(df)
         THEN [ok |-> FALSE, df |-> df]
         ELSE [ok |-> TRUE, df |-> WithColumn(df, name, vals)]

-----------------------------------------------------------------------------
(* numpy: the buffer and the coercion of a typed line *)

\* mutant of FullBuffer: a buffer one entry longer
FullBufferLong == [k \in 0..BufLen |-> Sentinel]

\* np.full(1000, -1)
FullBuffer == [k \in 0..(BufLen - 1) |-> Sentinel]

\* the buffer as the column pandas receives
AsColumn(a) == [r \in 1..BufLen |-> a[r - 1]]

Digits == {"0", "1", "2", "3", "4", "5", "6", "7", "8", "9"}

DigitVal(ch) ==
    CASE ch = "0" -> 0 [] ch = "1" -> 1 [] ch = "2" -> 2 [] ch = "3" -> 3
      [] ch = "4" -> 4 [] ch = "5" -> 5 [] ch = "6" -> 6 [] ch = "7" -> 7
      [] ch = "8" -> 8 [] ch = "9" -> 9

RECURSIVE StripLeft(_)
StripLeft(s) == IF s # <<>> /\ Head(s) = " " THEN StripLeft(Tail(s)) ELSE s

RECURSIVE StripRight(_)
StripRight(s) ==
    IF s # <<>> /\ s[Len(s)] = " " THEN StripRight(SubSeq(s, 1, Len(s) - 1)) ELSE s

RECURSIVE DigitsValue(_)
DigitsValue(s) ==
    IF s = <<>> THEN 0
    ELSE 10 * DigitsValue(SubSeq(s, 1, Len(s) - 1)) + DigitVal(s[Len(s)])

\* int(val) as numpy applies it when a str is assigned to an int64 element:
\* surrounding blanks dropped, one optional sign, then one or more digits
Coerce(line) ==
    LET s    == StripRight(StripLeft(line))
        sign == IF s # <<>> /\ Head(s) \in {"+", "-"} THEN Head(s) ELSE ""
        body == IF sign = "" THEN s ELSE Tail(s)
    IN  IF body # <<>> /\ \A k \in 1..Len(body) : body[k] \in Digits
        THEN [ok |-> TRUE,
              val |-> IF sign = "-" THEN 0 - DigitsValue(body) ELSE DigitsValue(body)]
        ELSE [ok |-> FALSE, val |-> 0]

-----------------------------------------------------------------------------
(* Inputs: the files the script is started on, the lines the operator types *)

Headers == {<<>>, <<"id">>, <<"id", "text">>,
            <<"id", "text", "test0">>, <<"id", "text", "test1">>}

Fills == {"a", "NA"}

\* the token of row r in the column called name
CellToken(name, fill, r) ==
    IF name = "id" THEN ToString(r)
    ELSE IF name = "text" THEN (IF r % 2 = 1 THEN fill ELSE "b")
    ELSE "1"

MakeFile(h, n, fill) ==
    [cols  |-> h,
     dtype |-> [c \in 1..Len(h) |-> "object"],
     data  |-> [c \in 1..Len(h) |-> [r \in 1..n |-> CellToken(h[c], fill, r)]]]

ShortFiles == {MakeFile(h, n, f) : h \in Headers \ {<<>>}, n \in 0..MaxRows, f \in Fills}

LongFiles == {MakeFile(h, n, "a") : h \in Headers \ {<<>>},
                                    n \in {BufLen - 1, BufLen, BufLen + 1}}

\* a file of zero bytes: no header line
EmptyFile == MakeFile(<<>>, 0, "a")

Files == ShortFiles \cup LongFiles \cup {EmptyFile}

DefaultEntry == <<"0">>

Entries == {<<"0">>, <<" ", "4">>, <<"-", "1">>, <<"1", "2">>,
            <<>>, <<"x">>, <<"2", ".", "5">>}

\* what the operator may type at the prompt for row position k
MayType(line, k) ==
    \/ NRows(edf) <= MaxRows
    \/ k < FreeRows
    \/ k >= NRows(edf) - FreeRows
    \/ line = DefaultEntry

\* whether the operator may interrupt at the prompt for row position k
MayInterrupt(k) ==
    \/ NRows(edf) <= MaxRows
    \/ k < FreeRows
    \/ k >= NRows(edf) - FreeRows

-----------------------------------------------------------------------------
(* The program *)

NoFrame == [cols |-> <<>>, dtype |-> <<>>, data |-> <<>>]

\* mutant of LabelName: only the first column taken as no label column
LabelNameOffByOne(df) == "test" \o ToString(NCols(df) - 1)

\* f'test{len(edf.columns) - 2}'
LabelName(df) == "test" \o ToString(NCols(df) - MetaCols)

\* row.text exists
HasText(df) == ColIndex(df, "text") > 0

\* mutant of Advance: the row number printed is the 0-based position
AdvanceShowsIndex(df, k) ==
    IF k < NRows(df)
    THEN IF ColIndex(df, "text") > 0
         THEN /\ i' = k /\ shown' = k /\ pc' = "prompt"
              /\ err' = "none" /\ finals' = finals
         ELSE /\ i' = k /\ shown' = k /\ pc' = "finally"
              /\ err' = "AttributeError" /\ finals' = finals + 1
    ELSE /\ i' = i /\ shown' = shown /\ pc' = "finally"
         /\ err' = "none" /\ finals' = finals + 1

\* The for statement takes row position k of frame df (k = i + 1, or 0 at
\* loop entry): the row is printed and input() blocks, or evaluating
\* row.text raises AttributeError, or the rows are exhausted.
Advance(df, k) ==
    IF k < NRows(df)
    THEN IF HasText(df)
         THEN /\ i' = k /\ shown' = k + 1 /\ pc' = "prompt"
              /\ err' = "none" /\ finals' = finals
         ELSE /\ i' = k /\ shown' = k + 1 /\ pc' = "finally"
              /\ err' = "AttributeError" /\ finals' = finals + 1
    ELSE /\ i' = i /\ shown' = shown /\ pc' = "finally"
         /\ err' = "none" /\ finals' = finals + 1

\* lines 5-9: read_csv, np.full, entry into try and the first iteration
Load ==
    /\ pc = "start"
    /\ IF NCols(file) = 0
       THEN \* EmptyDataError before the try statement is reached
            /\ pc' = "exit" /\ err' = "EmptyDataError"
            /\ UNCHANGED <<edf, ans, i, shown, finals, loaded>>
       ELSE /\ edf' = ReadCsv(file)
            /\ loaded' = ReadCsv(file).cols
            /\ ans' = FullBuffer
            /\ Advance(ReadCsv(file), 0)
    /\ UNCHANGED <<file, col, run, stored, entered, base, saves>>

\* lines 21-22 and the next iteration: input() returns line, ans[i] = val
Answer(line) ==
    /\ pc = "prompt"
    /\ MayType(line, i)
    /\ IF i >= BufLen
       THEN \* IndexError: index out of bounds for axis 0
            /\ pc' = "finally" /\ err' = "IndexError" /\ finals' = finals + 1
            /\ UNCHANGED <<ans, i, shown, stored, entered>>
       ELSE IF ~Coerce(line).ok
       THEN \* ValueError: invalid literal for int()
            /\ pc' = "finally" /\ err' = "ValueError_literal" /\ finals' = finals + 1
            /\ UNCHANGED <<ans, i, shown, stored, entered>>
       ELSE /\ ans' = [ans EXCEPT ![i] = Coerce(line).val]
            /\ stored' = stored + 1
            /\ entered' = Append(entered, Coerce(line).val)
            /\ Advance(edf, i + 1)
    /\ UNCHANGED <<file, edf, col, run, loaded, base, saves>>

\* mutant of Interrupt: the frame is written out as soon as the interrupt
\* arrives, before the finally block runs
InterruptCheckpoint ==
    /\ pc = "prompt"
    /\ MayInterrupt(i)
    /\ pc' = "finally" /\ err' = "KeyboardInterrupt" /\ finals' = finals + 1
    /\ file' = ToCsv(edf) /\ saves' = saves + 1
    /\ UNCHANGED <<edf, ans, i, col, run, shown, stored, entered, loaded, base>>

\* KeyboardInterrupt raised while input() blocks
Interrupt ==
    /\ pc = "prompt"
    /\ MayInterrupt(i)
    /\ pc' = "finally" /\ err' = "KeyboardInterrupt" /\ finals' = finals + 1
    /\ UNCHANGED <<file, edf, ans, i, col, run, shown, stored, entered, loaded,
                   base, saves>>

\* lines 24-26: the finally block
Finalize ==
    /\ pc = "finally"
    /\ col' = LabelName(edf)
    /\ LET res == SetItem(edf, LabelName(edf), AsColumn(ans)) IN
       IF res.ok
       THEN /\ edf' = res.df
            /\ file' = ToCsv(res.df)
            /\ saves' = saves + 1
            /\ err' = err
       ELSE \* the ValueError of edf[col] = ans replaces the one in flight
            /\ err' = "ValueError_length"
            /\ UNCHANGED <<edf, file, saves>>
    /\ pc' = "exit"
    /\ UNCHANGED <<ans, i, run, shown, stored, entered, loaded, base, finals>>

\* the script is started again on the file as it now is
Rerun ==
    /\ pc = "exit"
    /\ run < MaxRuns
    /\ run' = run + 1
    /\ pc' = "start"
    /\ edf' = NoFrame /\ ans' = <<>> /\ i' = 0 /\ col' = "" /\ err' = "none"
    /\ shown' = 0 /\ stored' = 0 /\ entered' = <<>> /\ loaded' = <<>>
    /\ finals' = 0 /\ saves' = 0
    /\ UNCHANGED <<file, base>>

Init ==
    /\ file \in Files
    /\ base = [cols |-> file.cols, rows |-> NRows(file)]
    /\ edf = NoFrame /\ ans = <<>> /\ i = 0 /\ col = ""
    /\ pc = "start" /\ err = "none" /\ run = 1
    /\ shown = 0 /\ stored = 0 /\ entered = <<>> /\ loaded = <<>>
    /\ finals = 0 /\ saves = 0

Next ==
    \/ Load
    \/ \E line \in Entries : Answer(line)
    \/ Interrupt
    \/ Finalize

\* one run of the script
Spec == Init /\ [][Next]_vars

NextTwice ==
    \/ Next
    \/ Rerun

\* the script run again and again on the file it leaves
SpecTwice == Init /\ [][NextTwice]_vars

-----------------------------------------------------------------------------
(* Properties *)

\* the dataset was loaded in this run (read_csv returns at least one column)
DatasetLoaded == loaded # <<>>

\* the file is as the script expects its input: an identifier column and
\* the tweet text first, label columns after them
ExpectedInput ==
    Len(base.cols) >= MetaCols /\ base.cols[1] = "id" /\ base.cols[2] = "text"

\* the file's column called name, as the decimal tokens of the first n
\* entries of vals followed by the token of -1 up to row rows
LabelTokens(vals, n, rows) ==
    [r \in 1..rows |-> IF r <= n THEN ToString(vals[r]) ELSE "-1"]

\* C1: in every run in which the dataset loads, the finalization step (name
\* the label column, attach the buffer, overwrite the file) has executed
\* exactly once when the run ends, however the loop ended.
C1_FinalizationOnce ==
    /\ finals <= 1
    /\ saves <= 1
    /\ (pc = "exit" /\ DatasetLoaded /\ ExpectedInput) =>
          /\ finals = 1
          /\ col # ""
          /\ ColIndex(edf, col) > 0
          /\ edf.data[ColIndex(edf, col)] = AsColumn(ans)
          /\ saves = 1

\* C2: when N <= 1000 rows were answered with v1..vN before the loop
\* stopped, the label column of the saved file holds v1..vN in its first N
\* entries and -1 in every remaining entry.
C2_SavedLabels ==
    (pc = "exit" /\ DatasetLoaded /\ ExpectedInput /\ stored <= BufLen) =>
        /\ saves = 1
        /\ ColIndex(file, col) > 0
        /\ file.data[ColIndex(file, col)]
             = LabelTokens(entered, stored, Len(file.data[ColIndex(file, col)]))

\* C3: for a dataset of R rows, whatever R >= 1 is, the finalization step
\* leaves a file of exactly R rows with their original cell values and a new
\* label column holding one integer per row.
C3_SavedRows ==
    [][(pc = "finally" /\ ExpectedInput /\ base.rows > 0) =>
          /\ NRows(file') = NRows(file)
          /\ NCols(file') = NCols(file) + 1
          /\ \A c \in 1..NCols(file) :
                 file'.cols[c] = file.cols[c] /\ file'.data[c] = file.data[c]
          /\ file'.data[NCols(file')]
               = [r \in 1..NRows(file) |-> ToString(ans[r - 1])]]_vars

\* C4: the label column's name is "test" followed by the loaded column
\* count minus 2, whatever the rows hold, whatever was answered and however
\* the loop ended.
C4_LabelName ==
    /\ (col # "" => finals = 1 /\ pc = "exit")
    /\ (pc = "exit" /\ finals = 1) => col = "test" \o ToString(Len(loaded) - 2)

\* a run on three loaded columns, interrupted, that added the column test1
C4_Witness ==
    /\ pc = "exit" /\ col = "test1" /\ Len(loaded) = 3
    /\ err = "KeyboardInterrupt" /\ saves = 1
    /\ file.cols = <<"id", "text", "test0", "test1">>

\* C5: a save of a dataset that has rows writes exactly the loaded columns,
\* in order and with unchanged values, followed by one new label column whose
\* name no loaded column has; no row-index column is written.
C5_AppendsNewColumn ==
    [][(saves' = saves + 1 /\ ExpectedInput /\ base.rows > 0) =>
          /\ \A c \in 1..NCols(edf) : edf.cols[c] # col'
          /\ file'.cols = Append(edf.cols, col')
          /\ \A c \in 1..NCols(edf) :
                 file'.data[c]
                   = [r \in 1..NRows(edf) |-> FormatCell("object", edf.data[c][r])]]_vars

\* C6: after an entry at row k that cannot be coerced, no further row is
\* prompted, entry k of the buffer is still -1, the finalization step saves
\* the labels entered before k and -1 for the rest, and the coercion failure
\* is the error the run ends with.
C6_BadEntry ==
    [][(pc = "finally" /\ err = "ValueError_literal" /\ ExpectedInput) =>
          /\ ans[i] = Sentinel
          /\ stored = i
          /\ pc' = "exit"
          /\ shown' = i + 1
          /\ saves' = saves + 1
          /\ ColIndex(file', col') > 0
          /\ file'.data[ColIndex(file', col')] = LabelTokens(entered, stored, NRows(edf))
          /\ err' = "ValueError_literal"]_vars

\* C7: the second of two runs in succession on a dataset that has rows
\* leaves the file with the columns it had before the first run and two
\* label columns of different names, and changes no column the first run
\* left.
C7_OneColumnPerRun ==
    [][(pc = "finally" /\ run = 2 /\ ExpectedInput /\ base.rows > 0) =>
          /\ NCols(file') = Len(base.cols) + 2
          /\ SubSeq(file'.cols, 1, Len(base.cols)) = base.cols
          /\ file'.cols[Len(base.cols) + 1] # file'.cols[Len(base.cols) + 2]
          /\ \A c \in 1..NCols(file) :
                 file'.cols[c] = file.cols[c] /\ file'.data[c] = file.data[c]]_vars

\* C8: the file is written at most once per run and only by the
\* finalization step: loading leaves the file as it is and takes its content,
\* no step before the finalization step changes the file, a failed load
\* writes nothing, and to_csv is never called a second time.
C8_SingleWrite ==
    /\ [](saves <= 1)
    /\ [](pc = "prompt" \/ pc = "finally" => saves = 0)
    /\ [][/\ (pc = "start" /\ pc' # "exit" => edf' = ReadCsv(file))
          /\ (pc # "finally" => file' = file)
          /\ (file' # file => saves = 0 /\ saves' = 1)
          /\ (saves' # saves => pc = "finally")]_vars

\* a run that answered prompts with the file untouched, and then wrote it
\* once in the finalization step
C8_Witness ==
    /\ pc = "exit" /\ saves = 1 /\ stored > 0
    /\ NCols(file) = Len(loaded) + 1 /\ err = "ValueError_literal"

\* C9: rows are prompted in their order, each once; the prompt for position
\* i shows i + 1 and comes after the answers for all lower positions were
\* stored; an answer is written to position i only, and a written entry
\* (the positions below i) is never changed again in the run.
C9_InOrder ==
    /\ [](pc = "prompt" =>
            /\ i = stored /\ shown = i + 1 /\ i < NRows(edf)
            /\ Len(entered) = stored)
    /\ [][/\ (pc = "start" /\ pc' = "prompt" =>
                i' = 0 /\ \A k \in DOMAIN ans' : ans'[k] = Sentinel)
          /\ (pc = "prompt" /\ pc' = "prompt" => i' = i + 1 /\ shown' = shown + 1)
          /\ (pc = "prompt" /\ stored' # stored =>
                /\ stored' = stored + 1
                /\ ans'[i] = entered'[stored']
                /\ ans' = [ans EXCEPT ![i] = entered'[stored']]
                /\ SubSeq(entered', 1, stored) = entered)
          /\ (pc = "prompt" /\ stored' = stored => ans' = ans /\ pc' = "finally")
          /\ (pc = "finally" => ans' = ans /\ pc' = "exit")]_vars

\* the third prompt of a session whose first two answers were 4 and 0
C9_Witness ==
    /\ pc = "prompt" /\ i = 2 /\ shown = 3
    /\ ans[0] = 4 /\ ans[1] = 0 /\ ans[2] = Sentinel

\* C10: the buffer has exactly 1000 entries throughout the run; with more
\* than 1000 rows, the answer to row 1001 is not stored: the loop stops
\* there with an error, the 1000 stored answers are unchanged, no later row
\* is prompted and the finalization step is entered.
C10_BufferLength ==
    /\ [](DatasetLoaded => DOMAIN ans = 0..999)
    /\ [](stored <= BufLen /\ shown <= BufLen + 1)
    /\ [][(pc = "prompt" /\ i >= BufLen) =>
             /\ pc' = "finally" /\ finals' = 1 /\ err' # "none"
             /\ ans' = ans /\ stored' = stored /\ shown' = shown]_vars

\* a dataset of 1001 rows at the moment the answer to row 1001 was refused
C10_Witness ==
    /\ pc = "finally" /\ err = "IndexError" /\ stored = BufLen
    /\ shown = BufLen + 1 /\ NRows(edf) > BufLen

=============================================================================
